---- MODULE Spec2Model ----
(***************************************************************************)
(* A model of the persistence layer of wickit's vault module               *)
(* (src/vault.py): the WickitSQLite connection wrapper and the             *)
(* VaultDatabase CRUD operations over the six tables jobs, companies,      *)
(* contacts, offers, job_alerts and interview_sessions.                    *)
(*                                                                         *)
(* A table is the sequence of its rows in insertion (rowid) order; a row   *)
(* and a Python dict are functions from keys to values.  Python and SQL    *)
(* are dynamically typed, so every value carries its type as the name of   *)
(* the one-field record that holds it.                                     *)
(***************************************************************************)
EXTENDS Integers, Sequences, FiniteSets, TLC

VARIABLES jobs, companies, contacts, offers, job_alerts, interview_sessions,
          clock, uuids, engine, issued, last, inflight

tables == <<jobs, companies, contacts, offers, job_alerts, interview_sessions>>
vars == <<jobs, companies, contacts, offers, job_alerts, interview_sessions,
          clock, uuids, engine, issued, last, inflight>>

(***************************************************************************)
(* Bounds of the model.                                                    *)
(***************************************************************************)
\* the number of uuid4() draws, that is of create calls, in a behaviour
MaxUuid == 2
\* the last instant the wall clock reaches
MaxClock == 1
\* the cap on the ids drawn by a store in which every draw made a company
MaxCompanies == 3

(***************************************************************************)
(* Values.                                                                 *)
(***************************************************************************)
\* Python None, SQL NULL
None == [none |-> TRUE]
\* a str / TEXT value
S(s) == [s |-> s]
\* an int / INTEGER value (True and False are stored as 1 and 0)
N(n) == [i |-> n]
\* a Python list of str
L(l) == [l |-> l]
\* a Python bool
B(b) == [b |-> b]
\* a timestamp text taken at instant t; texts of one format sort by instant
IsoFormat(t) == [ts |-> t, fmt |-> "iso"]
CurrentTimestamp(t) == [ts |-> t, fmt |-> "sql"]
\* str(uuid.uuid4()): the k-th identifier drawn
Uuid(k) == [uuid |-> k]
\* a JSON document as text: the sequence of its tokens
JsonText(toks) == [json |-> toks]
Punct(p) == [p |-> p]
Quoted(s) == [q |-> s]
Word(w) == [w |-> w]

IsList(v) == DOMAIN v = {"l"}
IsTs(v) == DOMAIN v = {"ts", "fmt"}

\* Python truthiness: bool(v) is False
Falsy(v) == \/ v = None
            \/ v = S("")
            \/ v = N(0)
            \/ v = L(<<>>)
            \/ v = JsonText(<<>>)
\* a or b
Or(a, b) == IF Falsy(a) THEN b ELSE a

\* d.get(k, default) and d.get(k)
Get(d, k, default) == IF k \in DOMAIN d THEN d[k] ELSE default
Get1(d, k) == Get(d, k, None)

\* the empty dict
EmptyDict == [k \in {} |-> None]

(***************************************************************************)
(* json.dumps and json.loads on the values the list columns take.          *)
(***************************************************************************)
\* the mutant: an encoder that drops the last element of a list
JsonDumpsDropsLast(v) ==
    IF v = None THEN JsonText(<<Word("null")>>)
    ELSE LET n == Len(v.l) - 1
         IN JsonText([i \in 1..(IF n <= 0 THEN 2 ELSE 2 * n + 1) |->
                IF i = 1 THEN Punct("[")
                ELSE IF i = (IF n <= 0 THEN 2 ELSE 2 * n + 1) THEN Punct("]")
                ELSE IF i % 2 = 0 THEN Quoted(v.l[i \div 2])
                ELSE Punct(",")])

\* json.dumps(v) for v None or a list of str
JsonDumps(v) ==
    IF v = None THEN JsonText(<<Word("null")>>)
    ELSE LET n == Len(v.l)
             len == IF n = 0 THEN 2 ELSE 2 * n + 1
         IN JsonText([i \in 1..len |->
                IF i = 1 THEN Punct("[")
                ELSE IF i = len THEN Punct("]")
                ELSE IF i % 2 = 0 THEN Quoted(v.l[i \div 2])
                ELSE Punct(",")])

\* whether the token sequence is a JSON array of strings
WellFormedArray(toks) ==
    /\ Len(toks) >= 2
    /\ toks[1] = Punct("[")
    /\ toks[Len(toks)] = Punct("]")
    /\ Len(toks) = 2 \/ Len(toks) % 2 = 1
    /\ \A i \in 2..(Len(toks) - 1) :
          IF i % 2 = 0 THEN DOMAIN toks[i] = {"q"} ELSE toks[i] = Punct(",")

\* json.loads(text): null gives None, an array of strings gives the list
JsonLoads(text) ==
    IF text.json = <<Word("null")>> THEN None
    ELSE IF WellFormedArray(text.json)
         THEN L([i \in 1..((Len(text.json) - 1) \div 2) |-> text.json[2 * i].q])
         ELSE [error |-> "JSONDecodeError"]

(***************************************************************************)
(* The schema (VaultDatabase._init_schema).                                *)
(***************************************************************************)
JobColumns == {"id", "title", "company", "url", "description", "location",
               "salary", "requirements", "stage", "notes", "tags",
               "applied_date", "created_at", "updated_at"}
JobNotNull == {"title", "company", "created_at", "updated_at"}

CompanyColumns == {"id", "name", "domain", "industry", "size", "funding_stage",
                   "rating", "location", "website", "notes", "last_updated",
                   "created_at"}
CompanyNotNull == {"name"}

ContactColumns == {"id", "name", "company", "position", "linkedin_url",
                   "relationship", "connection_type", "warm_intro_potential",
                   "last_contact", "notes", "created_at", "updated_at"}
ContactNotNull == {"name", "company"}

OfferColumns == {"id", "job_id", "company", "base_salary", "bonus", "equity",
                 "benefits", "start_date", "negotiation_notes", "status",
                 "created_at", "updated_at"}
OfferNotNull == {"company"}

JobAlertColumns == {"id", "name", "keywords", "location", "frequency",
                    "is_active", "last_run", "created_at", "updated_at"}
JobAlertNotNull == {"name", "keywords"}

InterviewSessionColumns == {"id", "company", "role", "category", "questions",
                            "answers", "feedback", "score", "created_at",
                            "updated_at"}
InterviewSessionNotNull == {"company", "role"}

\* the DEFAULT clauses of the columns an INSERT of the table leaves out
ContactDefaults(t) ==
    [created_at |-> CurrentTimestamp(t), updated_at |-> CurrentTimestamp(t)]
OfferDefaults(t) ==
    [created_at |-> CurrentTimestamp(t), updated_at |-> CurrentTimestamp(t)]

(***************************************************************************)
(* The SQL statements the operations issue.  A statement yields the error  *)
(* the engine reports ("" for none), the table it leaves in the            *)
(* connection's transaction, and cursor.rowcount.                          *)
(***************************************************************************)
Stmt(err, tbl, n) == [err |-> err, tbl |-> tbl, rowcount |-> n]

Rows(tbl) == {tbl[i] : i \in DOMAIN tbl}
Ids(tbl) == {tbl[i].id : i \in DOMAIN tbl}

\* INSERT INTO t (named columns) VALUES (?...): the columns left out take
\* their DEFAULT; id is the PRIMARY KEY
SqlInsert(tbl, named, defaults, notNull) ==
    LET row == named @@ defaults
    IN IF \E c \in notNull : row[c] = None
       THEN Stmt("NOT NULL constraint failed", tbl, 0)
       ELSE IF row.id \in Ids(tbl)
            THEN Stmt("UNIQUE constraint failed", tbl, 0)
            ELSE Stmt("", Append(tbl, row), 1)

\* the SQL operator NOT on a BOOLEAN column
SqlNot(v) == IF v = None THEN None ELSE IF v = N(0) THEN N(1) ELSE N(0)

\* UPDATE t SET c = ?, ..., d = NOT d, ... WHERE id = ?: sets gives the
\* value of each column set from a parameter, negated the columns set to
\* their own negation
SqlUpdate(tbl, sets, negated, id, columns, notNull) ==
    IF ~((DOMAIN sets \cup negated) \subseteq columns)
    THEN Stmt("no such column", tbl, 0)
    ELSE IF /\ id \in Ids(tbl)
            /\ \E c \in DOMAIN sets \cap notNull : sets[c] = None
         THEN Stmt("NOT NULL constraint failed", tbl, 0)
         ELSE Stmt("",
                   [i \in DOMAIN tbl |->
                      IF tbl[i].id = id
                      THEN [c \in DOMAIN tbl[i] |->
                              IF c \in DOMAIN sets THEN sets[c]
                              ELSE IF c \in negated THEN SqlNot(tbl[i][c])
                              ELSE tbl[i][c]]
                      ELSE tbl[i]],
                   Cardinality({i \in DOMAIN tbl : tbl[i].id = id}))

\* the mutant: a DELETE whose cursor reports no affected row
SqlDeleteNoRowcount(tbl, id) ==
    Stmt("", SelectSeq(tbl, LAMBDA r : r.id # id), 0)

\* DELETE FROM t WHERE id = ?
SqlDelete(tbl, id) ==
    LET kept == SelectSeq(tbl, LAMBDA r : r.id # id)
    IN Stmt("", kept, Len(tbl) - Len(kept))

\* SELECT * FROM t WHERE id = ?
SqlSelectById(tbl, id) == SelectSeq(tbl, LAMBDA r : r.id = id)

(***************************************************************************)
(* WickitSQLite: one connection per statement.                             *)
(***************************************************************************)
NoError == [type |-> "none", msg |-> ""]
DatabaseError(msg) == [type |-> "DatabaseError", msg |-> msg]

\* get_connection around execute + commit: a statement the engine rejects,
\* or an engine failure (fault), rolls the connection back and raises
\* DatabaseError; otherwise the transaction is committed
ExecuteCommand(tbl, stmt, fault) ==
    LET failure == IF fault THEN "disk I/O error" ELSE stmt.err
        pending == IF failure = "" THEN stmt.tbl ELSE tbl
        committed == IF failure = "" THEN pending ELSE tbl
    IN [raised |-> IF failure = "" THEN NoError ELSE DatabaseError(failure),
        tbl |-> committed,
        rowcount |-> IF failure = "" THEN stmt.rowcount ELSE 0]

\* get_connection around execute + fetchall
ExecuteQuery(rows, fault) ==
    [raised |-> IF fault THEN DatabaseError("disk I/O error") ELSE NoError,
     rows |-> IF fault THEN <<>> ELSE rows]

\* the engine failures the environment can inject into one statement
Faults == IF engine = "faulty" THEN BOOLEAN ELSE {FALSE}
\* and into a call of two statements: in none, in the first or in the second
FaultPoints ==
    IF engine = "faulty" THEN {"none", "first", "second"} ELSE {"none"}

\* datetime.now(): the clock does not go back; it may have advanced
Ticks == {t \in clock..MaxClock : t <= clock + 1}

\* the outcome of a call: what it returns or raises, and the table it leaves
Outcome(ret, raised, tbl) == [ret |-> ret, raised |-> raised, tbl |-> tbl]

(***************************************************************************)
(* VaultDatabase: job operations.                                          *)
(***************************************************************************)
\* the text "[]"
EmptyArrayText == JsonText(<<Punct("["), Punct("]")>>)

\* the JSON columns of a fetched job, parsed
DecodeJob(job) ==
    [job EXCEPT !.requirements = JsonLoads(Or(@, EmptyArrayText)),
                !.tags = JsonLoads(Or(@, EmptyArrayText))]

\* get_job(job_id)
GetJobCall(tbl, job_id, fault) ==
    LET q == ExecuteQuery(SqlSelectById(tbl, job_id), fault)
    IN IF q.raised # NoError THEN Outcome(None, q.raised, tbl)
       ELSE IF q.rows = <<>> THEN Outcome(None, NoError, tbl)
       ELSE Outcome(DecodeJob(q.rows[1]), NoError, tbl)

\* the mutant: a record in which an omitted stage and omitted notes are null
JobRecordNullStage(job_data, job_id, now) ==
    [id |-> job_id,
     title |-> Get(job_data, "title", S("")),
     company |-> Get(job_data, "company", S("")),
     url |-> Get1(job_data, "url"),
     description |-> Get1(job_data, "description"),
     location |-> Get1(job_data, "location"),
     salary |-> Get1(job_data, "salary"),
     requirements |-> JsonDumps(Get(job_data, "requirements", L(<<>>))),
     stage |-> Get1(job_data, "stage"),
     notes |-> Get1(job_data, "notes"),
     tags |-> JsonDumps(Get(job_data, "tags", L(<<>>))),
     applied_date |-> Get1(job_data, "applied_date"),
     created_at |-> now,
     updated_at |-> now]

\* the record create_job builds from job_data
JobRecord(job_data, job_id, now) ==
    [id |-> job_id,
     title |-> Get(job_data, "title", S("")),
     company |-> Get(job_data, "company", S("")),
     url |-> Get1(job_data, "url"),
     description |-> Get1(job_data, "description"),
     location |-> Get1(job_data, "location"),
     salary |-> Get1(job_data, "salary"),
     requirements |-> JsonDumps(Get(job_data, "requirements", L(<<>>))),
     stage |-> Get(job_data, "stage", S("saved")),
     notes |-> Get(job_data, "notes", S("")),
     tags |-> JsonDumps(Get(job_data, "tags", L(<<>>))),
     applied_date |-> Get1(job_data, "applied_date"),
     created_at |-> now,
     updated_at |-> now]

\* the first statement of create_job: execute_command of the INSERT, which
\* commits and closes its connection
CreateJobInsertCall(tbl, job_data, job_id, now, fault) ==
    ExecuteCommand(tbl,
        SqlInsert(tbl, JobRecord(job_data, job_id, now), EmptyDict, JobNotNull),
        fault)

\* create_job(job_data): the INSERT in one connection, then get_job in another
CreateJobCall(tbl, job_data, job_id, now, f1, f2) ==
    LET cmd == CreateJobInsertCall(tbl, job_data, job_id, now, f1)
    IN IF cmd.raised # NoError THEN Outcome(None, cmd.raised, cmd.tbl)
       ELSE GetJobCall(cmd.tbl, job_id, f2)

\* the mutant: a SET list that refreshes updated_at and writes nothing else
UpdateJobSetsOnlyStamp(job_data, now) == [updated_at |-> now]

\* the SET list update_job builds: updated_at is overwritten with now, the
\* key id is skipped, the list columns are encoded
UpdateJobSets(job_data, now) ==
    LET data == [k \in DOMAIN job_data \cup {"updated_at"} |->
                    IF k = "updated_at" THEN now ELSE job_data[k]]
    IN [k \in DOMAIN data \ {"id"} |->
          IF k \in {"requirements", "tags"}
          THEN JsonDumps(Or(data[k], L(<<>>)))
          ELSE data[k]]

\* update_job(job_id, job_data)
UpdateJobCall(tbl, job_id, job_data, now, f1, f2) ==
    LET cmd == ExecuteCommand(tbl,
                   SqlUpdate(tbl, UpdateJobSets(job_data, now), {}, job_id,
                             JobColumns, JobNotNull), f1)
    IN IF cmd.raised # NoError THEN Outcome(None, cmd.raised, cmd.tbl)
       ELSE IF cmd.rowcount > 0 THEN GetJobCall(cmd.tbl, job_id, f2)
       ELSE Outcome(None, NoError, cmd.tbl)

\* delete_job(job_id)
DeleteJobCall(tbl, job_id, fault) ==
    LET cmd == ExecuteCommand(tbl, SqlDelete(tbl, job_id), fault)
    IN IF cmd.raised # NoError THEN Outcome(None, cmd.raised, cmd.tbl)
       ELSE Outcome(B(cmd.rowcount > 0), NoError, cmd.tbl)

(***************************************************************************)
(* VaultDatabase: company, contact and offer operations.                   *)
(***************************************************************************)
\* get_company, get_contact, get_offer, get_job_alert: the row as fetched
GetRowCall(tbl, id, fault) ==
    LET q == ExecuteQuery(SqlSelectById(tbl, id), fault)
    IN IF q.raised # NoError THEN Outcome(None, q.raised, tbl)
       ELSE IF q.rows = <<>> THEN Outcome(None, NoError, tbl)
       ELSE Outcome(q.rows[1], NoError, tbl)

\* the record create_company builds from company_data
CompanyRecord(company_data, company_id, now) ==
    [id |-> company_id,
     name |-> Get(company_data, "name", S("")),
     domain |-> Get1(company_data, "domain"),
     industry |-> Get1(company_data, "industry"),
     size |-> Get1(company_data, "size"),
     funding_stage |-> Get1(company_data, "funding_stage"),
     rating |-> Get1(company_data, "rating"),
     location |-> Get1(company_data, "location"),
     website |-> Get1(company_data, "website"),
     notes |-> Get(company_data, "notes", S("")),
     last_updated |-> now,
     created_at |-> now]

\* create_company(company_data)
CreateCompanyCall(tbl, company_data, company_id, now, f1, f2) ==
    LET cmd == ExecuteCommand(tbl,
                   SqlInsert(tbl, CompanyRecord(company_data, company_id, now),
                             EmptyDict, CompanyNotNull), f1)
    IN IF cmd.raised # NoError THEN Outcome(None, cmd.raised, cmd.tbl)
       ELSE GetRowCall(cmd.tbl, company_id, f2)

\* the record create_contact builds from contact_data
ContactRecord(contact_data, contact_id) ==
    [id |-> contact_id,
     name |-> Get(contact_data, "name", S("")),
     company |-> Get(contact_data, "company", S("")),
     position |-> Get1(contact_data, "position"),
     linkedin_url |-> Get1(contact_data, "linkedin_url"),
     relationship |-> Get1(contact_data, "relationship"),
     connection_type |-> Get1(contact_data, "connection_type"),
     warm_intro_potential |-> Get1(contact_data, "warm_intro_potential"),
     last_contact |-> Get1(contact_data, "last_contact"),
     notes |-> Get(contact_data, "notes", S(""))]

\* create_contact(contact_data): the INSERT names neither created_at nor
\* updated_at, which take the engine's CURRENT_TIMESTAMP at instant t
CreateContactCall(tbl, contact_data, contact_id, t, f1, f2) ==
    LET cmd == ExecuteCommand(tbl,
                   SqlInsert(tbl, ContactRecord(contact_data, contact_id),
                             ContactDefaults(t), ContactNotNull), f1)
    IN IF cmd.raised # NoError THEN Outcome(None, cmd.raised, cmd.tbl)
       ELSE GetRowCall(cmd.tbl, contact_id, f2)

\* delete_contact(contact_id)
DeleteContactCall(tbl, contact_id, fault) ==
    LET cmd == ExecuteCommand(tbl, SqlDelete(tbl, contact_id), fault)
    IN IF cmd.raised # NoError THEN Outcome(None, cmd.raised, cmd.tbl)
       ELSE Outcome(B(cmd.rowcount > 0), NoError, cmd.tbl)

\* the record create_offer builds from offer_data
OfferRecord(offer_data, offer_id) ==
    [id |-> offer_id,
     job_id |-> Get1(offer_data, "job_id"),
     company |-> Get(offer_data, "company", S("")),
     base_salary |-> Get1(offer_data, "base_salary"),
     bonus |-> Get(offer_data, "bonus", S("")),
     equity |-> Get(offer_data, "equity", S("")),
     benefits |-> Get(offer_data, "benefits", S("")),
     start_date |-> Get1(offer_data, "start_date"),
     negotiation_notes |-> Get(offer_data, "negotiation_notes", S("")),
     status |-> Get(offer_data, "status", S("pending"))]

\* create_offer(offer_data)
CreateOfferCall(tbl, offer_data, offer_id, t, f1, f2) ==
    LET cmd == ExecuteCommand(tbl,
                   SqlInsert(tbl, OfferRecord(offer_data, offer_id),
                             OfferDefaults(t), OfferNotNull), f1)
    IN IF cmd.raised # NoError THEN Outcome(None, cmd.raised, cmd.tbl)
       ELSE GetRowCall(cmd.tbl, offer_id, f2)

\* a float, held exactly as a number of tenths
Float10(tenths) == [tenths |-> tenths]
\* n * 1.2 for an int n
Times1Point2(n) == Float10(n.i * 12)

\* the mutant: a valuation that returns the base salary itself
OfferValueWithoutUplift(base_salary) == Float10(base_salary.i * 10)

\* total_value = base_salary * 1.2
OfferValue(base_salary) == Times1Point2(base_salary)

\* calculate_offer_value(offer_id)
CalculateOfferValueCall(tbl, offer_id, fault) ==
    LET got == GetRowCall(tbl, offer_id, fault)
        offer == got.ret
        base_salary == Or(Get(offer, "base_salary", N(0)), N(0))
    IN IF got.raised # NoError THEN got
       ELSE IF offer = None
            THEN Outcome(None, DatabaseError("Offer not found"), tbl)
            ELSE Outcome([offer_id |-> offer_id,
                          base_salary |-> base_salary,
                          estimated_total_value |-> OfferValue(base_salary),
                          calculation_note |->
                              S("Estimated total value including benefits")],
                         NoError, tbl)

(***************************************************************************)
(* VaultDatabase: job alert and interview session operations.              *)
(***************************************************************************)
\* the record create_job_alert builds from alert_data
JobAlertRecord(alert_data, alert_id, now) ==
    [id |-> alert_id,
     name |-> Get(alert_data, "name", S("")),
     keywords |-> Get(alert_data, "keywords", S("")),
     location |-> Get(alert_data, "location", S("")),
     frequency |-> Get(alert_data, "frequency", S("daily")),
     is_active |-> Get(alert_data, "is_active", N(1)),
     last_run |-> Get1(alert_data, "last_run"),
     created_at |-> now,
     updated_at |-> now]

\* create_job_alert(alert_data)
CreateJobAlertCall(tbl, alert_data, alert_id, now, f1, f2) ==
    LET cmd == ExecuteCommand(tbl,
                   SqlInsert(tbl, JobAlertRecord(alert_data, alert_id, now),
                             EmptyDict, JobAlertNotNull), f1)
    IN IF cmd.raised # NoError THEN Outcome(None, cmd.raised, cmd.tbl)
       ELSE GetRowCall(cmd.tbl, alert_id, f2)

\* the mutant: a toggle that always deactivates
ToggleSetsInactive(tbl, alert_id, now) ==
    SqlUpdate(tbl, [is_active |-> N(0), updated_at |-> now], {}, alert_id,
              JobAlertColumns, JobAlertNotNull)

\* UPDATE job_alerts SET is_active = NOT is_active, updated_at = ? WHERE id = ?
ToggleStatement(tbl, alert_id, now) ==
    SqlUpdate(tbl, [updated_at |-> now], {"is_active"}, alert_id,
              JobAlertColumns, JobAlertNotNull)

\* toggle_job_alert(alert_id)
ToggleJobAlertCall(tbl, alert_id, now, f1, f2) ==
    LET cmd == ExecuteCommand(tbl, ToggleStatement(tbl, alert_id, now), f1)
    IN IF cmd.raised # NoError THEN Outcome(None, cmd.raised, cmd.tbl)
       ELSE GetRowCall(cmd.tbl, alert_id, f2)

\* run_job_alert(alert_id): datetime.now() is read twice, now1 for last_run
\* and now2 for updated_at
RunJobAlertCall(tbl, alert_id, now1, now2, f1, f2) ==
    LET cmd == ExecuteCommand(tbl,
                   SqlUpdate(tbl, [last_run |-> now1, updated_at |-> now2], {},
                             alert_id, JobAlertColumns, JobAlertNotNull), f1)
        got == GetRowCall(cmd.tbl, alert_id, f2)
    IN IF cmd.raised # NoError THEN Outcome(None, cmd.raised, cmd.tbl)
       ELSE IF got.raised # NoError THEN got
       ELSE Outcome([alert |-> got.ret,
                     jobs_found |-> L(<<>>),
                     message |-> S("Job alert executed (demo mode)")],
                    NoError, got.tbl)

\* the JSON columns of a fetched interview session, parsed
DecodeSession(session) ==
    [session EXCEPT !.questions = JsonLoads(Or(@, EmptyArrayText)),
                    !.answers = JsonLoads(Or(@, EmptyArrayText))]

\* get_interview_session(session_id)
GetInterviewSessionCall(tbl, session_id, fault) ==
    LET q == ExecuteQuery(SqlSelectById(tbl, session_id), fault)
    IN IF q.raised # NoError THEN Outcome(None, q.raised, tbl)
       ELSE IF q.rows = <<>> THEN Outcome(None, NoError, tbl)
       ELSE Outcome(DecodeSession(q.rows[1]), NoError, tbl)

\* the record create_interview_session builds from session_data
InterviewSessionRecord(session_data, session_id, now) ==
    [id |-> session_id,
     company |-> Get(session_data, "company", S("")),
     role |-> Get(session_data, "role", S("")),
     category |-> Get(session_data, "category", S("behavioral")),
     questions |-> JsonDumps(Get(session_data, "questions", L(<<>>))),
     answers |-> JsonDumps(Get(session_data, "answers", L(<<>>))),
     feedback |-> Get(session_data, "feedback", S("")),
     score |-> Get1(session_data, "score"),
     created_at |-> now,
     updated_at |-> now]

\* create_interview_session(session_data)
CreateInterviewSessionCall(tbl, session_data, session_id, now, f1, f2) ==
    LET cmd == ExecuteCommand(tbl,
                   SqlInsert(tbl,
                             InterviewSessionRecord(session_data, session_id, now),
                             EmptyDict, InterviewSessionNotNull), f1)
    IN IF cmd.raised # NoError THEN Outcome(None, cmd.raised, cmd.tbl)
       ELSE GetInterviewSessionCall(cmd.tbl, session_id, f2)

(***************************************************************************)
(* The get_all operations: SELECT * FROM t ORDER BY ...                    *)
(***************************************************************************)
\* the texts the model's names are drawn from, in BINARY collation order
Collation == <<"", "A", "B", "C">>
TextRank(v) == CHOOSE i \in DOMAIN Collation : Collation[i] = v.s
\* timestamp texts of one format sort by instant
TsRank(v) == v.ts

\* ORDER BY on a key given per row as a rank; rows of equal rank keep their
\* rowid order
OrderByAsc(tbl, keys) ==
    LET pos(i) == 1 + Cardinality({j \in DOMAIN tbl :
                        \/ keys[j] < keys[i]
                        \/ keys[j] = keys[i] /\ j < i})
    IN [p \in DOMAIN tbl |-> tbl[CHOOSE i \in DOMAIN tbl : pos(i) = p]]
OrderByDesc(tbl, keys) ==
    LET pos(i) == 1 + Cardinality({j \in DOMAIN tbl :
                        \/ keys[j] > keys[i]
                        \/ keys[j] = keys[i] /\ j < i})
    IN [p \in DOMAIN tbl |-> tbl[CHOOSE i \in DOMAIN tbl : pos(i) = p]]

OrderByCreatedAtDesc(tbl) ==
    OrderByDesc(tbl, [i \in DOMAIN tbl |-> TsRank(tbl[i].created_at)])
\* the mutant: rows in rowid order, as a SELECT without ORDER BY gives them
OrderByRowid(tbl) == tbl

OrderByNameAsc(tbl) ==
    OrderByAsc(tbl, [i \in DOMAIN tbl |-> TextRank(tbl[i].name)])

\* get_jobs()
GetJobsCall(tbl, fault) ==
    LET q == ExecuteQuery(OrderByCreatedAtDesc(tbl), fault)
    IN IF q.raised # NoError THEN Outcome(None, q.raised, tbl)
       ELSE Outcome(L([i \in DOMAIN q.rows |-> DecodeJob(q.rows[i])]),
                    NoError, tbl)

\* get_interview_sessions()
GetInterviewSessionsCall(tbl, fault) ==
    LET q == ExecuteQuery(OrderByCreatedAtDesc(tbl), fault)
    IN IF q.raised # NoError THEN Outcome(None, q.raised, tbl)
       ELSE Outcome(L([i \in DOMAIN q.rows |-> DecodeSession(q.rows[i])]),
                    NoError, tbl)

\* get_job_alerts() and get_offers()
GetByCreatedAtCall(tbl, fault) ==
    LET q == ExecuteQuery(OrderByCreatedAtDesc(tbl), fault)
    IN IF q.raised # NoError THEN Outcome(None, q.raised, tbl)
       ELSE Outcome(L(q.rows), NoError, tbl)

\* get_companies() and get_contacts()
GetByNameCall(tbl, fault) ==
    LET q == ExecuteQuery(OrderByNameAsc(tbl), fault)
    IN IF q.raised # NoError THEN Outcome(None, q.raised, tbl)
       ELSE Outcome(L(q.rows), NoError, tbl)

(***************************************************************************)
(* The callers' inputs.                                                    *)
(***************************************************************************)
\* job_data of create_job: nothing; a full record with an ordered list that
\* repeats an element, a null list, and an id and stamps of the caller's;
\* a null title
JobDataInputs ==
    << EmptyDict,
       [title |-> S("Engineer"), company |-> S("TechCorp"),
        requirements |-> L(<<"sql", "python", "sql">>), tags |-> None,
        id |-> S("mine"), created_at |-> IsoFormat(MaxClock + 1),
        updated_at |-> IsoFormat(MaxClock + 1)],
       [title |-> None] >>

\* job_data of update_job: nothing; a column, a list, a null list, a key id
\* and an updated_at of the caller's; a created_at of the caller's; a key
\* that is no column; a null title
JobUpdateInputs ==
    << EmptyDict,
       [stage |-> S("applied"), requirements |-> None,
        tags |-> L(<<"b", "a">>), id |-> S("other"),
        updated_at |-> IsoFormat(0)],
       [created_at |-> IsoFormat(MaxClock + 1)],
       [salary_band |-> S("senior")],
       [title |-> None] >>

CompanyDataInputs ==
    << [name |-> S("C")], [name |-> S("A")], [name |-> S("B")],
       [name |-> None] >>

ContactDataInputs ==
    << EmptyDict, [name |-> S("A"), company |-> S("TechCorp")],
       [name |-> S("B"), company |-> None] >>

OfferDataInputs ==
    << EmptyDict, [company |-> S("TechCorp"), base_salary |-> N(100000)],
       [company |-> None] >>

JobAlertDataInputs ==
    << EmptyDict, [is_active |-> N(0)],
       [name |-> S("A"), keywords |-> None] >>

InterviewSessionDataInputs ==
    << EmptyDict,
       [company |-> S("TechCorp"), questions |-> L(<<"q2", "q1">>),
        answers |-> L(<<>>)],
       [role |-> None] >>

\* the ids a caller can name: every id drawn so far, and one never drawn
IdArgs == {Uuid(k) : k \in 1..uuids} \cup {S("nonexistent-id")}

\* the mutant: a generator that repeats its first value
Uuid4Repeats(n) == Uuid(1)

\* str(uuid.uuid4()) after n draws: a value no earlier draw gave
Uuid4(n) == Uuid(n + 1)

(***************************************************************************)
(* The state machine: one action per operation of VaultDatabase.  last     *)
(* records the latest call (its name, arguments and outcome); issued the   *)
(* table and id of every record a create returned.                         *)
(* inflight holds a create_job call that has committed its INSERT and has   *)
(* not read the row back yet; it is None when a call runs as one step.      *)
(***************************************************************************)
Call(op, id, data, ret, raised) ==
    [op |-> op, id |-> id, data |-> data, ret |-> ret, raised |-> raised]
Called(op, id, data, out) == last' = Call(op, id, data, out.ret, out.raised)

\* VaultDatabase(product_name) on a new database file: six empty tables
InitWith(mode) ==
    /\ jobs = <<>>
    /\ companies = <<>>
    /\ contacts = <<>>
    /\ offers = <<>>
    /\ job_alerts = <<>>
    /\ interview_sessions = <<>>
    /\ clock = 0
    /\ uuids = 0
    /\ engine = mode
    /\ issued = <<>>
    /\ last = Call("init", None, EmptyDict, None, NoError)
    /\ inflight = None

Init == InitWith("sound")

CreateJob ==
    /\ uuids < MaxUuid
    /\ \E k \in DOMAIN JobDataInputs, now \in Ticks, at \in FaultPoints :
          LET data == JobDataInputs[k]
              out == CreateJobCall(jobs, data, Uuid4(uuids), IsoFormat(now), at = "first", at = "second")
          IN /\ jobs' = out.tbl
             /\ clock' = now
             /\ uuids' = uuids + 1
             /\ issued' = IF out.raised = NoError /\ out.ret # None
                           THEN Append(issued, <<"jobs", out.ret.id>>)
                           ELSE issued
             /\ Called("create_job", None, data, out)
    /\ UNCHANGED <<companies, contacts, offers, job_alerts, interview_sessions, engine, inflight>>

\* create_job as other callers' calls may interleave with it: up to the
\* commit of its INSERT.  inflight holds the call between its two statements.
CreateJobInsert ==
    /\ inflight = None
    /\ uuids < MaxUuid
    /\ \E k \in DOMAIN JobDataInputs, now \in Ticks, at \in FaultPoints :
          LET data == JobDataInputs[k]
              job_id == Uuid4(uuids)
              cmd == CreateJobInsertCall(jobs, data, job_id, IsoFormat(now), at = "first")
          IN /\ jobs' = cmd.tbl
             /\ clock' = now
             /\ uuids' = uuids + 1
             /\ IF cmd.raised # NoError
                THEN /\ inflight' = None
                     /\ Called("create_job", None, data,
                               Outcome(None, cmd.raised, cmd.tbl))
                ELSE /\ inflight' = [job_id |-> job_id, job_data |-> data,
                                     record |-> JobRecord(data, job_id, IsoFormat(now))]
                     /\ last' = last
    /\ UNCHANGED <<companies, contacts, offers, job_alerts, interview_sessions, engine, issued>>

\* the rest of that create_job: return self.get_job(job_id), on the table as
\* it is by then
CreateJobReadBack ==
    /\ inflight # None
    /\ \E f \in Faults :
          LET out == GetJobCall(jobs, inflight.job_id, f)
          IN /\ Called("create_job", None, inflight.job_data, out)
             /\ issued' = IF out.raised = NoError /\ out.ret # None
                           THEN Append(issued, <<"jobs", out.ret.id>>)
                           ELSE issued
    /\ inflight' = None
    /\ UNCHANGED <<tables, clock, uuids, engine>>

GetJobs ==
    /\ \E f \in Faults :
          Called("get_jobs", None, EmptyDict, GetJobsCall(jobs, f))
    /\ UNCHANGED <<tables, clock, uuids, engine, issued, inflight>>

GetJob ==
    /\ \E id \in IdArgs, f \in Faults :
          Called("get_job", id, EmptyDict, GetJobCall(jobs, id, f))
    /\ UNCHANGED <<tables, clock, uuids, engine, issued, inflight>>

UpdateJob ==
    /\ \E id \in IdArgs, k \in DOMAIN JobUpdateInputs, now \in Ticks,
          at \in FaultPoints :
          LET out == UpdateJobCall(jobs, id, JobUpdateInputs[k], IsoFormat(now),
                                   at = "first", at = "second")
          IN /\ jobs' = out.tbl
             /\ clock' = now
             /\ Called("update_job", id, JobUpdateInputs[k], out)
    /\ UNCHANGED <<companies, contacts, offers, job_alerts, interview_sessions, uuids, engine, issued, inflight>>

\* the mutant: a delete_job that also removes the offers naming the job
DeleteJobCascades ==
    /\ \E id \in IdArgs, f \in Faults :
          LET out == DeleteJobCall(jobs, id, f)
          IN /\ jobs' = out.tbl
             /\ offers' = SelectSeq(offers, LAMBDA o : o.job_id # id)
             /\ Called("delete_job", id, EmptyDict, out)
    /\ UNCHANGED <<companies, contacts, job_alerts, interview_sessions, clock, uuids, engine, issued, inflight>>

DeleteJob ==
    /\ \E id \in IdArgs, f \in Faults :
          LET out == DeleteJobCall(jobs, id, f)
          IN /\ jobs' = out.tbl
             /\ Called("delete_job", id, EmptyDict, out)
    /\ UNCHANGED <<companies, contacts, offers, job_alerts, interview_sessions, clock, uuids, engine, issued, inflight>>

CreateCompany ==
    /\ \/ uuids < MaxUuid
       \/ uuids < MaxCompanies /\ Len(companies) = uuids
    /\ \E k \in DOMAIN CompanyDataInputs, now \in Ticks, at \in FaultPoints :
          LET data == CompanyDataInputs[k]
              out == CreateCompanyCall(companies, data, Uuid4(uuids), IsoFormat(now), at = "first", at = "second")
          IN /\ companies' = out.tbl
             /\ clock' = now
             /\ uuids' = uuids + 1
             /\ issued' = IF out.raised = NoError /\ out.ret # None
                           THEN Append(issued, <<"companies", out.ret.id>>)
                           ELSE issued
             /\ Called("create_company", None, data, out)
    /\ UNCHANGED <<jobs, contacts, offers, job_alerts, interview_sessions, engine, inflight>>

GetCompanies ==
    /\ \E f \in Faults :
          Called("get_companies", None, EmptyDict, GetByNameCall(companies, f))
    /\ UNCHANGED <<tables, clock, uuids, engine, issued, inflight>>

GetCompany ==
    /\ \E id \in IdArgs, f \in Faults :
          Called("get_company", id, EmptyDict, GetRowCall(companies, id, f))
    /\ UNCHANGED <<tables, clock, uuids, engine, issued, inflight>>

CreateContact ==
    /\ uuids < MaxUuid
    /\ \E k \in DOMAIN ContactDataInputs, now \in Ticks, at \in FaultPoints :
          LET data == ContactDataInputs[k]
              out == CreateContactCall(contacts, data, Uuid4(uuids), now, at = "first", at = "second")
          IN /\ contacts' = out.tbl
             /\ clock' = now
             /\ uuids' = uuids + 1
             /\ issued' = IF out.raised = NoError /\ out.ret # None
                           THEN Append(issued, <<"contacts", out.ret.id>>)
                           ELSE issued
             /\ Called("create_contact", None, data, out)
    /\ UNCHANGED <<jobs, companies, offers, job_alerts, interview_sessions, engine, inflight>>

GetContacts ==
    /\ \E f \in Faults :
          Called("get_contacts", None, EmptyDict, GetByNameCall(contacts, f))
    /\ UNCHANGED <<tables, clock, uuids, engine, issued, inflight>>

GetContact ==
    /\ \E id \in IdArgs, f \in Faults :
          Called("get_contact", id, EmptyDict, GetRowCall(contacts, id, f))
    /\ UNCHANGED <<tables, clock, uuids, engine, issued, inflight>>

DeleteContact ==
    /\ \E id \in IdArgs, f \in Faults :
          LET out == DeleteContactCall(contacts, id, f)
          IN /\ contacts' = out.tbl
             /\ Called("delete_contact", id, EmptyDict, out)
    /\ UNCHANGED <<jobs, companies, offers, job_alerts, interview_sessions, clock, uuids, engine, issued, inflight>>

CreateJobAlert ==
    /\ uuids < MaxUuid
    /\ \E k \in DOMAIN JobAlertDataInputs, now \in Ticks, at \in FaultPoints :
          LET data == JobAlertDataInputs[k]
              out == CreateJobAlertCall(job_alerts, data, Uuid4(uuids), IsoFormat(now), at = "first", at = "second")
          IN /\ job_alerts' = out.tbl
             /\ clock' = now
             /\ uuids' = uuids + 1
             /\ issued' = IF out.raised = NoError /\ out.ret # None
                           THEN Append(issued, <<"job_alerts", out.ret.id>>)
                           ELSE issued
             /\ Called("create_job_alert", None, data, out)
    /\ UNCHANGED <<jobs, companies, contacts, offers, interview_sessions, engine, inflight>>

GetJobAlerts ==
    /\ \E f \in Faults :
          Called("get_job_alerts", None, EmptyDict, GetByCreatedAtCall(job_alerts, f))
    /\ UNCHANGED <<tables, clock, uuids, engine, issued, inflight>>

GetJobAlert ==
    /\ \E id \in IdArgs, f \in Faults :
          Called("get_job_alert", id, EmptyDict, GetRowCall(job_alerts, id, f))
    /\ UNCHANGED <<tables, clock, uuids, engine, issued, inflight>>

ToggleJobAlert ==
    /\ \E id \in IdArgs, now \in Ticks, at \in FaultPoints :
          LET out == ToggleJobAlertCall(job_alerts, id, IsoFormat(now), at = "first", at = "second")
          IN /\ job_alerts' = out.tbl
             /\ clock' = now
             /\ Called("toggle_job_alert", id, EmptyDict, out)
    /\ UNCHANGED <<jobs, companies, contacts, offers, interview_sessions, uuids, engine, issued, inflight>>

RunJobAlert ==
    /\ \E id \in IdArgs, now1 \in Ticks, at \in FaultPoints :
          \E now2 \in {t \in now1..MaxClock : t <= now1 + 1} :
             LET out == RunJobAlertCall(job_alerts, id, IsoFormat(now1),
                                        IsoFormat(now2), at = "first", at = "second")
             IN /\ job_alerts' = out.tbl
                /\ clock' = now2
                /\ Called("run_job_alert", id, EmptyDict, out)
    /\ UNCHANGED <<jobs, companies, contacts, offers, interview_sessions, uuids, engine, issued, inflight>>

CreateInterviewSession ==
    /\ uuids < MaxUuid
    /\ \E k \in DOMAIN InterviewSessionDataInputs, now \in Ticks, at \in FaultPoints :
          LET data == InterviewSessionDataInputs[k]
              out == CreateInterviewSessionCall(interview_sessions, data, Uuid4(uuids), IsoFormat(now), at = "first", at = "second")
          IN /\ interview_sessions' = out.tbl
             /\ clock' = now
             /\ uuids' = uuids + 1
             /\ issued' = IF out.raised = NoError /\ out.ret # None
                           THEN Append(issued, <<"interview_sessions", out.ret.id>>)
                           ELSE issued
             /\ Called("create_interview_session", None, data, out)
    /\ UNCHANGED <<jobs, companies, contacts, offers, job_alerts, engine, inflight>>

GetInterviewSessions ==
    /\ \E f \in Faults :
          Called("get_interview_sessions", None, EmptyDict, GetInterviewSessionsCall(interview_sessions, f))
    /\ UNCHANGED <<tables, clock, uuids, engine, issued, inflight>>

GetInterviewSession ==
    /\ \E id \in IdArgs, f \in Faults :
          Called("get_interview_session", id, EmptyDict, GetInterviewSessionCall(interview_sessions, id, f))
    /\ UNCHANGED <<tables, clock, uuids, engine, issued, inflight>>

CreateOffer ==
    /\ uuids < MaxUuid
    /\ \E k \in DOMAIN OfferDataInputs, now \in Ticks, at \in FaultPoints,
          j \in Ids(jobs) \cup {None} :
          LET data == IF j = None THEN OfferDataInputs[k]
                      ELSE [job_id |-> j] @@ OfferDataInputs[k]
              out == CreateOfferCall(offers, data, Uuid4(uuids), now, at = "first", at = "second")
          IN /\ offers' = out.tbl
             /\ clock' = now
             /\ uuids' = uuids + 1
             /\ issued' = IF out.raised = NoError /\ out.ret # None
                           THEN Append(issued, <<"offers", out.ret.id>>)
                           ELSE issued
             /\ Called("create_offer", None, data, out)
    /\ UNCHANGED <<jobs, companies, contacts, job_alerts, interview_sessions, engine, inflight>>

GetOffers ==
    /\ \E f \in Faults :
          Called("get_offers", None, EmptyDict, GetByCreatedAtCall(offers, f))
    /\ UNCHANGED <<tables, clock, uuids, engine, issued, inflight>>

GetOffer ==
    /\ \E id \in IdArgs, f \in Faults :
          Called("get_offer", id, EmptyDict, GetRowCall(offers, id, f))
    /\ UNCHANGED <<tables, clock, uuids, engine, issued, inflight>>

CalculateOfferValue ==
    /\ \E id \in IdArgs, f \in Faults :
          Called("calculate_offer_value", id, EmptyDict, CalculateOfferValueCall(offers, id, f))
    /\ UNCHANGED <<tables, clock, uuids, engine, issued, inflight>>

Next ==
    \/ CreateJob \/ GetJobs \/ GetJob \/ UpdateJob \/ DeleteJob
    \/ CreateCompany \/ GetCompanies \/ GetCompany
    \/ CreateContact \/ GetContacts \/ GetContact \/ DeleteContact
    \/ CreateJobAlert \/ GetJobAlerts \/ GetJobAlert
    \/ ToggleJobAlert \/ RunJobAlert
    \/ CreateInterviewSession \/ GetInterviewSessions \/ GetInterviewSession
    \/ CreateOffer \/ GetOffers \/ GetOffer \/ CalculateOfferValue

\* the storage engine never fails on its own account
Spec == Init /\ [][Next]_vars

(***************************************************************************)
(* An operation reads and writes one table only, so the operations of one  *)
(* entity are also explored on their own.                                  *)
(***************************************************************************)
NextJobs == CreateJob \/ GetJobs \/ GetJob \/ UpdateJob \/ DeleteJob
SpecJobs == Init /\ [][NextJobs]_vars

\* the storage engine may fail (an I/O error, a lock) in any statement of
\* the calls that write to jobs
InitFaulty == InitWith("faulty")
NextJobWrites == CreateJob \/ UpdateJob \/ DeleteJob
SpecJobsFaulty == InitFaulty /\ [][NextJobWrites]_vars

NextJobAlerts ==
    \/ CreateJobAlert \/ GetJobAlerts \/ GetJobAlert
    \/ ToggleJobAlert \/ RunJobAlert
SpecJobAlerts == Init /\ [][NextJobAlerts]_vars

NextOffers == CreateOffer \/ GetOffers \/ GetOffer \/ CalculateOfferValue
SpecOffers == Init /\ [][NextOffers]_vars

\* a caller whose create_job is between its two statements while other
\* callers update, delete and list jobs
NextInterleaved ==
    \/ CreateJobInsert \/ CreateJobReadBack
    \/ UpdateJob \/ DeleteJob \/ GetJobs
SpecInterleaved == Init /\ [][NextInterleaved]_vars

\* the get_all operations that the default orders are documented for, over
\* the creates and deletes of their entities
NextListing ==
    \/ CreateJob \/ CreateCompany \/ CreateContact
    \/ CreateJobAlert \/ CreateInterviewSession
    \/ DeleteJob \/ DeleteContact
    \/ GetJobs \/ GetCompanies \/ GetContacts
    \/ GetJobAlerts \/ GetInterviewSessions
SpecListing == Init /\ [][NextListing]_vars

\* the operations that add and remove rows, over the six tables
NextStore ==
    \/ CreateJob \/ CreateCompany \/ CreateContact \/ CreateOffer
    \/ CreateJobAlert \/ CreateInterviewSession
    \/ DeleteJob \/ DeleteContact
SpecStore == Init /\ [][NextStore]_vars

(***************************************************************************)
(* Properties.                                                             *)
(***************************************************************************)
CreateOps == {"create_job", "create_company", "create_contact", "create_offer",
              "create_job_alert", "create_interview_session"}

\* whether the latest call is a create that returned
CreateReturned == last.op \in CreateOps /\ last.raised = NoError

\* get(id) on the entity the latest create belongs to
GetAfterCreate(id) ==
    CASE last.op = "create_job" -> GetJobCall(jobs, id, FALSE).ret
      [] last.op = "create_company" -> GetRowCall(companies, id, FALSE).ret
      [] last.op = "create_contact" -> GetRowCall(contacts, id, FALSE).ret
      [] last.op = "create_offer" -> GetRowCall(offers, id, FALSE).ret
      [] last.op = "create_job_alert" -> GetRowCall(job_alerts, id, FALSE).ret
      [] last.op = "create_interview_session" ->
            GetInterviewSessionCall(interview_sessions, id, FALSE).ret

ListFields == {"requirements", "tags", "questions", "answers"}

\* C1: right after a create of any entity has returned, get of the returned
\* id gives a record equal to the returned one (id, timestamps and every
\* field), and each list field supplied as a list comes back as that same
\* ordered sequence.
C1_RoundTrip ==
    CreateReturned =>
        /\ last.ret # None
        /\ GetAfterCreate(last.ret.id) = last.ret
        /\ \A f \in (ListFields \cap DOMAIN last.data) \cap DOMAIN last.ret :
              IsList(last.data[f]) => last.ret[f] = last.data[f]

\* a create_job that was given a list with a repeated element, in an order
\* that is not sorted, has returned
C1_Witness ==
    /\ CreateReturned
    /\ last.op = "create_job"
    /\ "requirements" \in DOMAIN last.data
    /\ last.data.requirements = L(<<"sql", "python", "sql">>)
    /\ GetJobCall(jobs, last.ret.id, FALSE).ret.requirements =
           L(<<"sql", "python", "sql">>)

\* C2: the ids the creates of one table have returned are pairwise distinct,
\* also when the row of an earlier one was deleted since, and no two rows of
\* a table share an id.
C2_IdsUnique ==
    /\ \A i, j \in DOMAIN issued : i # j => issued[i] # issued[j]
    /\ \A t \in DOMAIN tables :
          \A i, j \in DOMAIN tables[t] :
              i # j => tables[t][i].id # tables[t][j].id

\* a create on jobs has returned after the row of an earlier create on jobs
\* was deleted, and its row is stored
C2_Witness ==
    \E i, j \in DOMAIN issued :
        /\ i < j
        /\ issued[i][1] = "jobs" /\ issued[j][1] = "jobs"
        /\ issued[i][2] \notin Ids(jobs)
        /\ issued[j][2] \in Ids(jobs)

\* the row of a table that holds an id
RowOf(tbl, id) == tbl[CHOOSE i \in DOMAIN tbl : tbl[i].id = id]

\* timestamp texts compared as the store's texts sort
TsLeq(a, b) == IsTs(a) /\ IsTs(b) /\ a.ts <= b.ts

\* C3: an update_job call, whatever keys job_data holds, leaves the id and
\* the created_at of every job as they were.
C3_CreatedAtImmutable ==
    [][last'.op = "update_job" =>
          /\ Len(jobs') = Len(jobs)
          /\ \A i \in DOMAIN jobs :
                /\ jobs'[i].id = jobs[i].id
                /\ jobs'[i].created_at = jobs[i].created_at]_vars

\* C4: after update_job, toggle_job_alert or run_job_alert has changed a
\* record, its updated_at is no earlier than its created_at and no earlier
\* than the updated_at it had before.
C4_UpdatedAtMonotone ==
    [][/\ (last'.op = "update_job" /\ last'.raised = NoError) =>
              \A i \in DOMAIN jobs :
                  jobs[i].id = last'.id =>
                      /\ TsLeq(jobs'[i].created_at, jobs'[i].updated_at)
                      /\ TsLeq(jobs[i].updated_at, jobs'[i].updated_at)
       /\ (/\ last'.op \in {"toggle_job_alert", "run_job_alert"}
           /\ last'.raised = NoError) =>
              \A i \in DOMAIN job_alerts :
                  job_alerts[i].id = last'.id =>
                      /\ TsLeq(job_alerts'[i].created_at,
                               job_alerts'[i].updated_at)
                      /\ TsLeq(job_alerts[i].updated_at,
                               job_alerts'[i].updated_at)]_vars

\* whether the caller of the latest create_job or update_job passed the list
\* field f as null or left it out
NullOrOmitted(f) == f \notin DOMAIN last.data \/ last.data[f] = None

\* C6: every job that get_job or get_jobs returns has requirements and tags
\* as lists, and a create_job or update_job that was given such a field as
\* null, or a create_job that was not given it, returns it as the empty list.
C6_ListFieldsAreLists ==
    /\ \A i \in DOMAIN jobs :
          /\ IsList(GetJobCall(jobs, jobs[i].id, FALSE).ret.requirements)
          /\ IsList(GetJobCall(jobs, jobs[i].id, FALSE).ret.tags)
          /\ IsList(GetJobsCall(jobs, FALSE).ret.l[i].requirements)
          /\ IsList(GetJobsCall(jobs, FALSE).ret.l[i].tags)
    /\ (last.op = "create_job" /\ last.raised = NoError) =>
          \A f \in {"requirements", "tags"} :
              NullOrOmitted(f) => last.ret[f] = L(<<>>)
    /\ (last.op = "update_job" /\ last.raised = NoError /\ last.ret # None) =>
          \A f \in {"requirements", "tags"} \cap DOMAIN last.data :
              last.data[f] = None => last.ret[f] = L(<<>>)

\* what a delete call that the latest step made has done to its table
DeleteEffect(before, after) ==
    /\ last'.raised = NoError
    /\ last'.ret = B(last'.id \in Ids(before))
    /\ last'.id \notin Ids(after)
    /\ Rows(after) = {r \in Rows(before) : r.id # last'.id}
    /\ Len(after) = Len(before) - (IF last'.id \in Ids(before) THEN 1 ELSE 0)
    /\ last'.id \notin Ids(before) => after = before

C7_CreateStampsBoth ==
    CreateReturned =>
        /\ {"created_at", "updated_at"} \subseteq DOMAIN last.ret
        /\ IsTs(last.ret.created_at)
        /\ last.ret.created_at.ts = clock
        /\ last.ret.created_at = last.ret.updated_at

\* the stamps of the five entities other than the company
StampsExceptCompany == last.op # "create_company" => C7_CreateStampsBoth

MutatingOps ==
    CreateOps \cup {"update_job", "delete_job", "delete_contact",
                    "toggle_job_alert", "run_job_alert"}

\* C8: a mutating call that raises raises DatabaseError and leaves the six
\* tables as they were before the call.
C8_FailureAtomic ==
    [][(last'.op \in MutatingOps /\ last'.raised # NoError) =>
          /\ last'.raised.type = "DatabaseError"
          /\ tables' = tables]_vars

\* is_active with true and false exchanged
Flipped(v) == IF v = N(1) THEN N(0) ELSE IF v = N(0) THEN N(1) ELSE v

\* C9: toggle_job_alert on a stored alert exchanges true and false in
\* is_active, keeps every other alert, and returns the record as stored;
\* a second toggle right after it restores is_active; on an id that is not
\* stored it returns absent and changes no row.
C9_ToggleInvolution ==
    /\ [](\A id \in IdArgs :
            LET once == ToggleJobAlertCall(job_alerts, id, IsoFormat(clock),
                                           FALSE, FALSE)
                twice == ToggleJobAlertCall(once.tbl, id, IsoFormat(clock),
                                            FALSE, FALSE)
            IN IF id \in Ids(job_alerts)
               THEN /\ twice.ret.is_active = RowOf(job_alerts, id).is_active
                    /\ once.ret.is_active # RowOf(job_alerts, id).is_active
               ELSE once.ret = None /\ once.tbl = job_alerts)
    /\ [][(last'.op = "toggle_job_alert" /\ last'.raised = NoError) =>
             IF last'.id \in Ids(job_alerts)
             THEN /\ last'.ret = RowOf(job_alerts', last'.id)
                  /\ RowOf(job_alerts, last'.id).is_active \in {N(0), N(1)}
                  /\ last'.ret.is_active =
                        Flipped(RowOf(job_alerts, last'.id).is_active)
                  /\ Len(job_alerts') = Len(job_alerts)
                  /\ \A i \in DOMAIN job_alerts :
                        job_alerts[i].id # last'.id =>
                            job_alerts'[i] = job_alerts[i]
             ELSE /\ last'.ret = None
                  /\ tables' = tables]_vars

\* toggle_job_alert has returned the record of an alert that is active
\* again: it was toggled at least twice, or created inactive
C9_Witness ==
    /\ last.op = "toggle_job_alert"
    /\ last.ret # None
    /\ last.ret.is_active = N(1)
    /\ last.ret = RowOf(job_alerts, last.id)

\* base_salary as calculate_offer_value reads it: 0 when null
SalaryOrZero(offer) ==
    IF offer.base_salary = None THEN 0 ELSE offer.base_salary.i

\* C10: calculate_offer_value returns a result exactly when an offer with
\* the id is stored, with estimated_total_value 1.2 times the base salary
\* (0 for a null one); otherwise it raises "Offer not found" and returns
\* nothing; it leaves the six tables as they were.
C10_OfferValue ==
    /\ [](last.op = "calculate_offer_value" =>
            IF last.id \in Ids(offers)
            THEN /\ last.raised = NoError
                 /\ last.ret.offer_id = last.id
                 /\ last.ret.base_salary =
                        N(SalaryOrZero(RowOf(offers, last.id)))
                 /\ 10 * last.ret.estimated_total_value.tenths =
                        12 * (10 * SalaryOrZero(RowOf(offers, last.id)))
            ELSE /\ last.raised = DatabaseError("Offer not found")
                 /\ last.ret = None)
    /\ [][last'.op = "calculate_offer_value" => tables' = tables]_vars

\* the offer of base salary 100000 was valued 120000.0
C10_Witness ==
    /\ last.op = "calculate_offer_value"
    /\ last.raised = NoError
    /\ RowOf(offers, last.id).base_salary = N(100000)
    /\ last.ret.estimated_total_value = Float10(1200000)

\* whether get_offers on a table returns the row
ListedOffer(tbl, row) ==
    LET listed == GetByCreatedAtCall(tbl, FALSE).ret.l
    IN \E k \in DOMAIN listed : listed[k] = row

\* C11: delete_job leaves offers and every table other than jobs as they
\* were; the offers whose job_id is the deleted id are still returned, with
\* that job_id, by get_offer and get_offers.
C11_NoCascade ==
    [][last'.op = "delete_job" =>
          /\ \A t \in DOMAIN tables : t # 1 => tables'[t] = tables[t]
          /\ \A i \in DOMAIN offers :
                offers[i].job_id = last'.id =>
                    /\ GetRowCall(offers', offers[i].id, FALSE).ret = offers[i]
                    /\ ListedOffer(offers', offers[i])]_vars

\* delete_job has removed a job that a stored offer names in job_id
C11_Witness ==
    /\ last.op = "delete_job"
    /\ last.ret = B(TRUE)
    /\ last.id \notin Ids(jobs)
    /\ \E i \in DOMAIN offers :
          /\ offers[i].job_id = last.id
          /\ GetRowCall(offers, offers[i].id, FALSE).ret.job_id = last.id

\* what an update_job call that returned has left outside the keys of its
\* job_data: the columns it did not name, the other jobs, and, for an id
\* that is not stored, the whole table
UpdateFrame ==
    IF last'.id \in Ids(jobs)
    THEN /\ last'.ret # None
         /\ last'.ret = GetJobCall(jobs', last'.id, FALSE).ret
         /\ \A c \in JobColumns \ (DOMAIN last'.data \cup {"updated_at"}) :
               last'.ret[c] = GetJobCall(jobs, last'.id, FALSE).ret[c]
         /\ Len(jobs') = Len(jobs)
         /\ \A i \in DOMAIN jobs :
               jobs[i].id # last'.id => jobs'[i] = jobs[i]
    ELSE /\ last'.ret = None
         /\ jobs' = jobs

\* C12: an update_job call that returns, on a stored job, returns its record
\* with the supplied value under every key of job_data other than id, the
\* previous value in every column not named other than updated_at, and the
\* other jobs as they were; on an id that is not stored it returns absent and
\* leaves the table as it was.
C12_PartialUpdate ==
    [][(last'.op = "update_job" /\ last'.raised = NoError) =>
          /\ UpdateFrame
          /\ last'.id \in Ids(jobs) =>
                \A k \in DOMAIN last'.data \ {"id"} :
                    last'.ret[k] = last'.data[k]]_vars

\* the value update_job stores for a key of job_data: the empty list for a
\* list field supplied as null, else the supplied value
Supplied(k) ==
    IF k \in {"requirements", "tags"} /\ last'.data[k] = None
    THEN L(<<>>)
    ELSE last'.data[k]

\* C12, amended: as C12, except that updated_at holds the time of the call
\* whatever job_data holds under that key, and that a list field supplied as
\* null holds the empty list.
C12_PartialUpdateAmended ==
    [][(last'.op = "update_job" /\ last'.raised = NoError) =>
          /\ UpdateFrame
          /\ last'.id \in Ids(jobs) =>
                /\ \A k \in DOMAIN last'.data \ {"id", "updated_at"} :
                      last'.ret[k] = Supplied(k)
                /\ last'.ret.updated_at = IsoFormat(clock')
                /\ last'.ret.id = last'.id]_vars

\* update_job has returned the record of a stored job for a job_data with a
\* column, a list, a null list, an id and an updated_at
C12_Witness ==
    /\ last.op = "update_job"
    /\ last.raised = NoError
    /\ last.ret # None
    /\ {"stage", "tags", "requirements", "id", "updated_at"}
           \subseteq DOMAIN last.data
    /\ last.ret.stage = S("applied")
    /\ last.ret.tags = L(<<"b", "a">>)
    /\ last.ret.id = last.id

\* whether a list holds every row of a table exactly once: the ids of the
\* list are those of the table, none twice
EveryRowOnce(list, tbl) ==
    /\ Len(list) = Len(tbl)
    /\ {list[k].id : k \in DOMAIN list} = Ids(tbl)
    /\ \A k \in DOMAIN list :
          \E i \in DOMAIN tbl : tbl[i].id = list[k].id /\ tbl[i].name = list[k].name

\* whether a list is in ascending order of name
AscendingByName(list) ==
    \A k, m \in DOMAIN list :
        k < m => TextRank(list[k].name) <= TextRank(list[m].name)

\* whether a list is in descending order of created_at
DescendingByCreatedAt(list) ==
    \A k, m \in DOMAIN list :
        k < m => TsLeq(list[m].created_at, list[k].created_at)

\* whether a list holds the rows of a table, each once, by id and created_at
EveryStampOnce(list, tbl) ==
    /\ Len(list) = Len(tbl)
    /\ {<<list[k].id, list[k].created_at>> : k \in DOMAIN list} =
           {<<tbl[i].id, tbl[i].created_at>> : i \in DOMAIN tbl}
    /\ Cardinality({list[k].id : k \in DOMAIN list}) = Len(list)

\* the names of a list of rows, in the order of the list
Names(list) == [k \in DOMAIN list |-> list[k].name.s]

\* C13: get_companies and get_contacts return every stored row once, in
\* ascending order of name (companies created as C, A, B come back as
\* A, B, C); get_jobs, get_interview_sessions and get_job_alerts return every
\* stored row once, in descending order of created_at.
C13_DefaultOrder ==
    /\ LET list == GetByNameCall(companies, FALSE).ret.l
       IN /\ EveryRowOnce(list, companies)
          /\ AscendingByName(list)
          /\ Names(companies) = <<"C", "A", "B">> =>
                Names(list) = <<"A", "B", "C">>
    /\ LET list == GetByNameCall(contacts, FALSE).ret.l
       IN EveryRowOnce(list, contacts) /\ AscendingByName(list)
    /\ LET list == GetJobsCall(jobs, FALSE).ret.l
       IN EveryStampOnce(list, jobs) /\ DescendingByCreatedAt(list)
    /\ LET list == GetInterviewSessionsCall(interview_sessions, FALSE).ret.l
       IN /\ EveryStampOnce(list, interview_sessions)
          /\ DescendingByCreatedAt(list)
    /\ LET list == GetByCreatedAtCall(job_alerts, FALSE).ret.l
       IN EveryStampOnce(list, job_alerts) /\ DescendingByCreatedAt(list)
    /\ (last.op = "get_companies" /\ last.raised = NoError) =>
          last.ret = GetByNameCall(companies, FALSE).ret
    /\ (last.op = "get_jobs" /\ last.raised = NoError) =>
          last.ret = GetJobsCall(jobs, FALSE).ret

\* get_companies has returned A, B, C for companies created as C, A, B
C13_Witness ==
    /\ last.op = "get_companies"
    /\ last.raised = NoError
    /\ Names(companies) = <<"C", "A", "B">>
    /\ Names(last.ret.l) = <<"A", "B", "C">>

\* whether the latest step is a run_job_alert call that returned, made on a
\* stored alert
RanStoredAlert ==
    /\ last'.op = "run_job_alert"
    /\ last'.raised = NoError
    /\ last'.id \in Ids(job_alerts)

\* what run_job_alert does apart from the instants it writes: the bundle it
\* returns, the fields and the alerts it leaves alone
RunAlertFrame ==
    /\ DOMAIN last'.ret = {"alert", "jobs_found", "message"}
    /\ last'.ret.alert = RowOf(job_alerts', last'.id)
    /\ last'.ret.jobs_found = L(<<>>)
    /\ last'.ret.message = S("Job alert executed (demo mode)")
    /\ \A c \in JobAlertColumns \ {"last_run", "updated_at"} :
          RowOf(job_alerts', last'.id)[c] = RowOf(job_alerts, last'.id)[c]
    /\ IsTs(last'.ret.alert.last_run)
    /\ TsLeq(last'.ret.alert.last_run, last'.ret.alert.updated_at)
    /\ last'.ret.alert.updated_at = IsoFormat(clock')
    /\ Len(job_alerts') = Len(job_alerts)
    /\ \A i \in DOMAIN job_alerts :
          job_alerts[i].id # last'.id => job_alerts'[i] = job_alerts[i]

\* C14: run_job_alert on a stored alert writes one instant to last_run and
\* updated_at, so that the two are equal after the call, leaves the other
\* fields of the alert and the other alerts as they were, and returns the
\* updated alert with an empty jobs_found and a message.
C14_RunAlert ==
    [][RanStoredAlert =>
          /\ RunAlertFrame
          /\ last'.ret.alert.last_run = last'.ret.alert.updated_at]_vars

\* run_job_alert apart from the equality of the two instants
RunAlertExceptInstant == [][RanStoredAlert => RunAlertFrame]_vars

\* the defaults the entity table documents for the fields of a create
DocumentedDefaults ==
    [create_job |-> [title |-> S(""), stage |-> S("saved"),
                     requirements |-> L(<<>>), tags |-> L(<<>>),
                     notes |-> S("")],
     create_company |-> EmptyDict,
     create_contact |-> EmptyDict,
     create_offer |-> [status |-> S("pending")],
     create_job_alert |-> [frequency |-> S("daily"), is_active |-> N(1)],
     create_interview_session |-> [category |-> S("behavioral"),
                                   questions |-> L(<<>>),
                                   answers |-> L(<<>>)]]

\* C15: create_job with every field omitted returns a record with title "",
\* stage "saved", requirements [], tags [] and notes ""; the record a create
\* of any entity returns holds the documented default in each field with one
\* that the caller omitted.
C15_DefaultFill ==
    /\ (last.op = "create_job" /\ last.data = EmptyDict) =>
          /\ last.raised = NoError
          /\ last.ret # None
          /\ \A f \in DOMAIN DocumentedDefaults.create_job :
                last.ret[f] = DocumentedDefaults.create_job[f]
    /\ CreateReturned =>
          /\ last.ret # None
          /\ \A f \in DOMAIN DocumentedDefaults[last.op] \ DOMAIN last.data :
                last.ret[f] = DocumentedDefaults[last.op][f]

\* create_job with every field omitted has returned its record
C15_Witness ==
    /\ last.op = "create_job"
    /\ last.data = EmptyDict
    /\ last.raised = NoError
    /\ last.ret.stage = S("saved")
    /\ last.ret.requirements = L(<<>>)
    /\ last.ret.id \in Ids(jobs)

\* C16: a create_job call whose two statements other callers' calls come
\* between still returns a record, with the id it assigned and the fields it
\* wrote.
C16_CreateUnderInterleaving ==
    [][(inflight # None /\ inflight' = None /\ last'.raised = NoError) =>
          /\ last'.ret # None
          /\ last'.ret.id = inflight.job_id
          /\ last'.ret = DecodeJob(inflight.record)]_vars

====
